---- MODULE Spec2Model ----
(***************************************************************************)
(* Chain-config metadata accessors of modules/rawdb/accessors_metadata.go: *)
(* ReadChainConfig and WriteChainConfig over a key-value table.            *)
(*                                                                         *)
(* Byte strings are sequences of ASCII codes.  The table is a function     *)
(* from the keys present to their values.  The JSON codec, the ChainConfig *)
(* schema and the key derivation live outside the accessor file; they are  *)
(* modelled as byte-level conversions: formatting on the way in, parsing   *)
(* on the way out.                                                         *)
(***************************************************************************)
EXTENDS Integers, Sequences, FiniteSets, TLC

\* ------------------------------------------------------------------ bounds
MaxChainID == 1     \* ChainID ranges over nil, 10, 20, .. 10 * MaxChainID
MaxBlock == 0       \* HomesteadBlock ranges over nil, 0..MaxBlock
MaxDrop == 1        \* a truncation may drop 1..MaxDrop trailing bytes

\* ------------------------------------------------------------- byte codes
LBrace == 123
RBrace == 125
Quote == 34
Colon == 58
Comma == 44
Zero == 48

HashLength == 32

\* "chainId"
chainIdName == <<99, 104, 97, 105, 110, 73, 100>>
\* "homesteadBlock"
homesteadBlockName == <<104, 111, 109, 101, 115, 116, 101, 97, 100, 66, 108, 111, 99, 107>>
\* null, true, false
nullLit == <<110, 117, 108, 108>>
trueLit == <<116, 114, 117, 101>>
falseLit == <<102, 97, 108, 115, 101>>

\* ------------------------------------------------------------ ChainConfig
\* A nil *big.Int field.
NilBig == -1

\* The *big.Int values the fields draw from; chain ids have two digits.
ChainIDs == {NilBig} \cup {10 * k : k \in 1..MaxChainID}
Blocks == {NilBig} \cup (0..MaxBlock)

\* params.ChainConfig restricted to two fields: ChainID (always encoded) and
\* HomesteadBlock (omitted from the encoding when nil).
ChainConfig == [ChainID : ChainIDs, HomesteadBlock : Blocks]

\* The zero value `var config params.ChainConfig`.
ZeroConfig == [ChainID |-> NilBig, HomesteadBlock |-> NilBig]

\* A *params.ChainConfig: <<>> is the nil pointer, <<c>> points to c.
NilCfg == <<>>
Ptr(c) == <<c>>
ConfigPtrs == {NilCfg} \cup {Ptr(c) : c \in ChainConfig}

\* ------------------------------------------------------------ JSON encode
Quoted(name) == <<Quote>> \o name \o <<Quote>>

\* Decimal formatting of a natural number.
RECURSIVE FormatUint(_)
FormatUint(n) ==
    IF n < 10 THEN <<Zero + n>>
    ELSE FormatUint(n \div 10) \o <<Zero + (n % 10)>>

MarshalBig(b) == IF b = NilBig THEN nullLit ELSE FormatUint(b)

\* json.Marshal(cfg): err is "" on success.
Marshal(c) ==
    [data |-> <<LBrace>> \o Quoted(chainIdName) \o <<Colon>> \o MarshalBig(c.ChainID)
              \o (IF c.HomesteadBlock = NilBig THEN <<>>
                  ELSE <<Comma>> \o Quoted(homesteadBlockName) \o <<Colon>>
                       \o MarshalBig(c.HomesteadBlock))
              \o <<RBrace>>,
     err |-> ""]

\* ------------------------------------------------------------ JSON decode
IsDigit(b) == b >= 48 /\ b <= 57

HasAt(s, i, lit) ==
    /\ i + Len(lit) - 1 <= Len(s)
    /\ SubSeq(s, i, i + Len(lit) - 1) = lit

\* First index >= i that does not hold a digit.
RECURSIVE scanDigits(_, _)
scanDigits(s, i) ==
    IF i <= Len(s) /\ IsDigit(s[i]) THEN scanDigits(s, i + 1) ELSE i

\* Index of the first quote at or after i, 0 when there is none.
RECURSIVE scanQuote(_, _)
scanQuote(s, i) ==
    IF i > Len(s) THEN 0
    ELSE IF s[i] = Quote THEN i
    ELSE scanQuote(s, i + 1)

RECURSIVE ParseUint(_)
ParseUint(t) ==
    IF Len(t) = 0 THEN 0
    ELSE 10 * ParseUint(SubSeq(t, 1, Len(t) - 1)) + (t[Len(t)] - Zero)

BadScan == [ok |-> FALSE, next |-> 0, kind |-> "bad", text |-> <<>>, members |-> <<>>]

Scanned(next, kind, text, members) ==
    [ok |-> TRUE, next |-> next, kind |-> kind, text |-> text, members |-> members]

\* The scanner: one JSON value starting at s[i].  Objects, strings without
\* escapes, unsigned decimal numbers and the three literals; no white space.
\* members lists an object's <<key, value>> pairs in input order.
RECURSIVE scanValue(_, _)
RECURSIVE scanMembers(_, _)
scanValue(s, i) ==
    IF i > Len(s) THEN BadScan
    ELSE IF s[i] = LBrace THEN
        IF i + 1 <= Len(s) /\ s[i + 1] = RBrace
        THEN Scanned(i + 2, "object", <<>>, <<>>)
        ELSE scanMembers(s, i + 1)
    ELSE IF s[i] = Quote THEN
        LET j == scanQuote(s, i + 1) IN
        IF j = 0 THEN BadScan ELSE Scanned(j + 1, "string", SubSeq(s, i + 1, j - 1), <<>>)
    ELSE IF IsDigit(s[i]) THEN
        LET j == IF s[i] = Zero THEN i + 1 ELSE scanDigits(s, i) IN
        Scanned(j, "number", SubSeq(s, i, j - 1), <<>>)
    ELSE IF HasAt(s, i, nullLit) THEN Scanned(i + 4, "null", <<>>, <<>>)
    ELSE IF HasAt(s, i, trueLit) THEN Scanned(i + 4, "bool", <<>>, <<>>)
    ELSE IF HasAt(s, i, falseLit) THEN Scanned(i + 5, "bool", <<>>, <<>>)
    ELSE BadScan

scanMembers(s, i) ==
    IF i > Len(s) \/ s[i] # Quote THEN BadScan
    ELSE
        LET j == scanQuote(s, i + 1) IN
        IF j = 0 \/ j + 1 > Len(s) \/ s[j + 1] # Colon THEN BadScan
        ELSE
            LET v == scanValue(s, j + 2)
                m == [key |-> SubSeq(s, i + 1, j - 1), kind |-> v.kind, text |-> v.text]
            IN
            IF ~v.ok \/ v.next > Len(s) THEN BadScan
            ELSE IF s[v.next] = RBrace THEN Scanned(v.next + 1, "object", <<>>, <<m>>)
            ELSE IF s[v.next] = Comma THEN
                LET rest == scanMembers(s, v.next + 1) IN
                IF rest.ok THEN Scanned(rest.next, "object", <<>>, <<m>> \o rest.members)
                ELSE BadScan
            ELSE BadScan

\* Storing one literal into a *big.Int field: null sets the pointer to nil,
\* a number is parsed, anything else is rejected by big.Int's UnmarshalJSON.
StoreBig(m) ==
    IF m.kind = "null" THEN [ok |-> TRUE, v |-> NilBig]
    ELSE IF m.kind = "number" THEN [ok |-> TRUE, v |-> ParseUint(m.text)]
    ELSE [ok |-> FALSE, v |-> NilBig]

\* Decoding an object's members into config, left to right; unknown keys are
\* skipped, a repeated key overwrites, the first rejected value stops the
\* decoding and leaves the fields stored so far.
RECURSIVE decodeMembers(_, _, _)
decodeMembers(ms, k, config) ==
    IF k > Len(ms) THEN [err |-> "", config |-> config]
    ELSE IF ms[k].key = chainIdName THEN
        LET b == StoreBig(ms[k]) IN
        IF b.ok THEN decodeMembers(ms, k + 1, [config EXCEPT !.ChainID = b.v])
        ELSE [err |-> "UnmarshalTypeError", config |-> config]
    ELSE IF ms[k].key = homesteadBlockName THEN
        LET b == StoreBig(ms[k]) IN
        IF b.ok THEN decodeMembers(ms, k + 1, [config EXCEPT !.HomesteadBlock = b.v])
        ELSE [err |-> "UnmarshalTypeError", config |-> config]
    ELSE decodeMembers(ms, k + 1, config)

\* json.Unmarshal(data, &config): the input is validated as a whole first
\* (a syntax error stores nothing), then decoded into config.
Unmarshal(data, config) ==
    LET v == scanValue(data, 1) IN
    IF ~v.ok \/ v.next # Len(data) + 1 THEN [err |-> "SyntaxError", config |-> config]
    ELSE IF v.kind = "null" THEN [err |-> "", config |-> config]
    ELSE IF v.kind = "object" THEN decodeMembers(v.members, 1, config)
    ELSE [err |-> "UnmarshalTypeError", config |-> config]

\* ---------------------------------------------------------- genesis hashes
\* types.Hash values: 32 bytes, hash k has its k-th byte set.  The operations
\* draw their hashes from two of them.
Hash(k) == [i \in 1..HashLength |-> IF i = k THEN 1 ELSE 0]
Hashes == {Hash(1), Hash(2)}

\* "config-"
configPrefix == <<99, 111, 110, 102, 105, 103, 45>>

\* modules.ConfigKey(hash): the fixed prefix followed by the hash bytes.
ConfigKey(hash) == configPrefix \o hash

\* ------------------------------------------------------------------ store
\* The table modules.ChainConfig of the key-value store: a function from the
\* keys present to their values.
EmptyTable == [k \in {} |-> <<>>]

\* Errors the store may report on a call; "" is a nil error.
StoreErrors == {"kv: io error"}

\* What a failing lookup may hand back next to its error.
NoFault == [err |-> "", data |-> <<>>]
PutFaults == {[err |-> e, data |-> <<>>] : e \in StoreErrors}
GetFaults == {[err |-> e, data |-> d] : e \in StoreErrors,
                                         d \in {<<>>, Marshal(ZeroConfig).data}}

\* db.GetOne(table, key): an absent key yields zero bytes and no error.
GetOne(db, key, fault) ==
    IF fault.err # "" THEN [data |-> fault.data, err |-> fault.err]
    ELSE [data |-> IF key \in DOMAIN db THEN db[key] ELSE <<>>, err |-> ""]

\* db.Put(table, key, data): an upsert; a failing Put stores nothing.
Put(db, key, data, fault) ==
    IF fault.err # "" THEN [db |-> db, err |-> fault.err]
    ELSE [db |-> [k \in DOMAIN db \cup {key} |-> IF k = key THEN data ELSE db[k]],
          err |-> ""]

\* -------------------------------------------------------------- accessors
\* The errors of the accessors, by their messages.
ReadFailure == "fetch ChainConfig from db ,error: %v"
NotFound == "ChainConfig are empty"
DecodeFailure == "invalid chain config JSON err: %v"
InvalidArgument == "invalid cfg"

GetCall(key) == [op |-> "GetOne", key |-> key]
PutCall(key) == [op |-> "Put", key |-> key]

\* ReadChainConfig without the test for zero bytes: they go to the decoder.
ReadChainConfigNoEmptyCheck(db, hash, fault) ==
    LET key == ConfigKey(hash)
        r == GetOne(db, key, fault)
    IN
    IF r.err # "" THEN
        [config |-> NilCfg, err |-> ReadFailure, cause |-> r.err, calls |-> <<GetCall(key)>>]
    ELSE
        LET u == Unmarshal(r.data, ZeroConfig) IN
        IF u.err # "" THEN
            [config |-> NilCfg, err |-> DecodeFailure, cause |-> u.err,
             calls |-> <<GetCall(key)>>]
        ELSE
            [config |-> Ptr(u.config), err |-> "", cause |-> "", calls |-> <<GetCall(key)>>]

\* ReadChainConfig dropping the decoder's error: whatever was decoded is
\* returned as a success.
ReadChainConfigIgnoreDecodeErr(db, hash, fault) ==
    LET key == ConfigKey(hash)
        r == GetOne(db, key, fault)
    IN
    IF r.err # "" THEN
        [config |-> NilCfg, err |-> ReadFailure, cause |-> r.err, calls |-> <<GetCall(key)>>]
    ELSE IF Len(r.data) = 0 THEN
        [config |-> NilCfg, err |-> NotFound, cause |-> "", calls |-> <<GetCall(key)>>]
    ELSE
        [config |-> Ptr(Unmarshal(r.data, ZeroConfig).config), err |-> "", cause |-> "",
         calls |-> <<GetCall(key)>>]

\* ReadChainConfig testing the length of the data before the store's error.
ReadChainConfigLenFirst(db, hash, fault) ==
    LET key == ConfigKey(hash)
        r == GetOne(db, key, fault)
    IN
    IF Len(r.data) = 0 THEN
        [config |-> NilCfg, err |-> NotFound, cause |-> "", calls |-> <<GetCall(key)>>]
    ELSE IF r.err # "" THEN
        [config |-> NilCfg, err |-> ReadFailure, cause |-> r.err, calls |-> <<GetCall(key)>>]
    ELSE
        LET u == Unmarshal(r.data, ZeroConfig) IN
        IF u.err # "" THEN
            [config |-> NilCfg, err |-> DecodeFailure, cause |-> u.err,
             calls |-> <<GetCall(key)>>]
        ELSE
            [config |-> Ptr(u.config), err |-> "", cause |-> "", calls |-> <<GetCall(key)>>]

\* ReadChainConfig looking up the key of the zero hash whatever hash is given.
ReadChainConfigFixedKey(db, hash, fault) ==
    LET key == ConfigKey([i \in 1..HashLength |-> 0])
        r == GetOne(db, key, fault)
    IN
    IF r.err # "" THEN
        [config |-> NilCfg, err |-> ReadFailure, cause |-> r.err, calls |-> <<GetCall(key)>>]
    ELSE IF Len(r.data) = 0 THEN
        [config |-> NilCfg, err |-> NotFound, cause |-> "", calls |-> <<GetCall(key)>>]
    ELSE
        LET u == Unmarshal(r.data, ZeroConfig) IN
        IF u.err # "" THEN
            [config |-> NilCfg, err |-> DecodeFailure, cause |-> u.err,
             calls |-> <<GetCall(key)>>]
        ELSE
            [config |-> Ptr(u.config), err |-> "", cause |-> "", calls |-> <<GetCall(key)>>]

\* ReadChainConfig(db, hash): config is the returned pointer, err the returned
\* error, cause the error formatted into it, calls the store calls issued.
ReadChainConfig(db, hash, fault) ==
    LET key == ConfigKey(hash)
        r == GetOne(db, key, fault)
    IN
    IF r.err # "" THEN
        [config |-> NilCfg, err |-> ReadFailure, cause |-> r.err, calls |-> <<GetCall(key)>>]
    ELSE IF Len(r.data) = 0 THEN
        [config |-> NilCfg, err |-> NotFound, cause |-> "", calls |-> <<GetCall(key)>>]
    ELSE
        LET u == Unmarshal(r.data, ZeroConfig) IN
        IF u.err # "" THEN
            [config |-> NilCfg, err |-> DecodeFailure, cause |-> u.err,
             calls |-> <<GetCall(key)>>]
        ELSE
            [config |-> Ptr(u.config), err |-> "", cause |-> "", calls |-> <<GetCall(key)>>]

\* The Put of WriteChainConfig and what is returned after it: the store's
\* error as it is, or nil.
PutEncoded(db, key, data, fault) ==
    LET p == Put(db, key, data, fault) IN
    IF p.err # "" THEN
        [db |-> p.db, err |-> p.err, cause |-> p.err, calls |-> <<PutCall(key)>>]
    ELSE
        [db |-> p.db, err |-> "", cause |-> "", calls |-> <<PutCall(key)>>]

\* WriteChainConfig returning success without the Put.
WriteChainConfigNoPut(db, hash, cfg, fault) ==
    IF cfg = NilCfg THEN
        [db |-> db, err |-> InvalidArgument, cause |-> "", calls |-> <<>>]
    ELSE
        [db |-> db, err |-> "", cause |-> "", calls |-> <<>>]

\* WriteChainConfig as an insert: a key that is present keeps its value.
WriteChainConfigKeepFirst(db, hash, cfg, fault) ==
    IF cfg = NilCfg THEN
        [db |-> db, err |-> InvalidArgument, cause |-> "", calls |-> <<>>]
    ELSE IF ConfigKey(hash) \in DOMAIN db THEN
        PutEncoded(db, ConfigKey(hash), db[ConfigKey(hash)], fault)
    ELSE
        PutEncoded(db, ConfigKey(hash), Marshal(cfg[1]).data, fault)

\* WriteChainConfig clearing the table before the Put.
WriteChainConfigClearTable(db, hash, cfg, fault) ==
    IF cfg = NilCfg THEN
        [db |-> db, err |-> InvalidArgument, cause |-> "", calls |-> <<>>]
    ELSE
        PutEncoded(EmptyTable, ConfigKey(hash), Marshal(cfg[1]).data, fault)

\* WriteChainConfig without the nil test: json.Marshal encodes a nil pointer
\* as null, which is then put.
WriteChainConfigNilMarshalled(db, hash, cfg, fault) ==
    IF cfg = NilCfg THEN
        PutEncoded(db, ConfigKey(hash), nullLit, fault)
    ELSE
        PutEncoded(db, ConfigKey(hash), Marshal(cfg[1]).data, fault)

\* WriteChainConfig appending the encoding to the value already stored.
WriteChainConfigAppend(db, hash, cfg, fault) ==
    IF cfg = NilCfg THEN
        [db |-> db, err |-> InvalidArgument, cause |-> "", calls |-> <<>>]
    ELSE
        PutEncoded(db, ConfigKey(hash),
                   GetOne(db, ConfigKey(hash), NoFault).data \o Marshal(cfg[1]).data, fault)

\* WriteChainConfig trying the Put a second time when the first one fails.
WriteChainConfigRetry(db, hash, cfg, fault) ==
    IF cfg = NilCfg THEN
        [db |-> db, err |-> InvalidArgument, cause |-> "", calls |-> <<>>]
    ELSE
        LET key == ConfigKey(hash)
            first == PutEncoded(db, key, Marshal(cfg[1]).data, fault)
            second == PutEncoded(db, key, Marshal(cfg[1]).data, NoFault)
        IN
        IF first.err = "" THEN first
        ELSE [second EXCEPT !.calls = first.calls \o second.calls]

\* WriteChainConfig(db, hash, cfg): db is the table after the call; a failing
\* Marshal or Put is returned as it is.
WriteChainConfig(db, hash, cfg, fault) ==
    IF cfg = NilCfg THEN
        [db |-> db, err |-> InvalidArgument, cause |-> "", calls |-> <<>>]
    ELSE
        LET m == Marshal(cfg[1]) IN
        IF m.err # "" THEN
            [db |-> db, err |-> m.err, cause |-> m.err, calls |-> <<>>]
        ELSE
            PutEncoded(db, ConfigKey(hash), m.data, fault)

\* ------------------------------------------------------------------ state
VARIABLES
    db,       \* the table modules.ChainConfig
    result,   \* the last operation, its inputs and what it returned
    rec       \* per hash: where the bytes under its key come from and what
              \* a read of them is expected to give (history)

vars == <<db, result, rec>>

NoRecord == [src |-> "none", expect |-> "NotFound", cfg |-> ZeroConfig]

\* The last operation: op, its inputs hash and cfg, the store fault injected,
\* prior (for a write of a config: how it relates to the record it replaces)
\* and the returned config, err, cause and the store calls issued.
Outcome(op, hash, cfg, fault, prior, config, err, cause, calls) ==
    [op |-> op, hash |-> hash, cfg |-> cfg, fault |-> fault, prior |-> prior,
     config |-> config, err |-> err, cause |-> cause, calls |-> calls]

Init ==
    /\ db = EmptyTable
    /\ result = Outcome("none", Hash(1), NilCfg, NoFault, "", NilCfg, "", "", <<>>)
    /\ rec = [h \in Hashes |-> NoRecord]

\* A caller reads the config of hash.
Read(hash, fault) ==
    LET r == ReadChainConfig(db, hash, fault) IN
    /\ result' = Outcome("read", hash, NilCfg, fault, "", r.config, r.err, r.cause, r.calls)
    /\ UNCHANGED <<db, rec>>

\* How a write of cfg relates to the record under hash's key.
Prior(hash, cfg) ==
    IF cfg = NilCfg THEN ""
    ELSE IF rec[hash].src # "write" THEN "fresh"
    ELSE IF rec[hash].cfg = cfg[1] THEN "same"
    ELSE "other"

\* A caller writes cfg under hash; the Put fails when fault is an error.
Write(hash, cfg, fault) ==
    LET w == WriteChainConfig(db, hash, cfg, fault) IN
    /\ db' = w.db
    /\ result' = Outcome("write", hash, cfg, fault, Prior(hash, cfg), NilCfg,
                         w.err, w.cause, w.calls)
    /\ rec' = IF cfg # NilCfg /\ fault.err = ""
              THEN [rec EXCEPT ![hash] = [src |-> "write", expect |-> "ok", cfg |-> cfg[1]]]
              ELSE rec

\* Byte strings put under a key from outside the accessors, each with the
\* outcome of decoding it: empty bytes, documents json.Marshal would not
\* produce for a ChainConfig, and documents of the wrong type.
RawValues ==
    { [data |-> <<>>, expect |-> "NotFound", cfg |-> ZeroConfig],
      [data |-> nullLit, expect |-> "ok", cfg |-> ZeroConfig],
      [data |-> <<LBrace, RBrace>>, expect |-> "ok", cfg |-> ZeroConfig],
      \* {"homesteadBlock":0,"x":{"y":"z"},"chainId":17}
      [data |-> <<LBrace>> \o Quoted(homesteadBlockName) \o <<Colon, Zero, Comma>>
                \o Quoted(<<120>>) \o <<Colon, LBrace>> \o Quoted(<<121>>) \o <<Colon>>
                \o Quoted(<<122>>) \o <<RBrace, Comma>>
                \o Quoted(chainIdName) \o <<Colon, Zero + 1, Zero + 7, RBrace>>,
       expect |-> "ok", cfg |-> [ChainID |-> 17, HomesteadBlock |-> 0]],
      \* {"chainId":true}
      [data |-> <<LBrace>> \o Quoted(chainIdName) \o <<Colon>> \o trueLit \o <<RBrace>>,
       expect |-> "Decode", cfg |-> ZeroConfig],
      \* 7
      [data |-> <<Zero + 7>>, expect |-> "Decode", cfg |-> ZeroConfig] }

\* The store is changed from outside: raw bytes are put under hash's key.
PutRaw(hash, raw) ==
    /\ db' = Put(db, ConfigKey(hash), raw.data, NoFault).db
    /\ rec' = [rec EXCEPT ![hash] = [src |-> "extern", expect |-> raw.expect, cfg |-> raw.cfg]]
    /\ result' = Outcome("extern", hash, NilCfg, NoFault, "", NilCfg, "", "", <<>>)

\* The lengths a value of length n may be truncated to.
TruncLens(n) ==
    {k \in {1} \cup {n - d : d \in 1..MaxDrop} : k >= 1 /\ k < n}

\* The store is changed from outside: a written record is truncated.
Truncate(hash, n) ==
    /\ rec[hash].src = "write"
    /\ ConfigKey(hash) \in DOMAIN db
    /\ n \in TruncLens(Len(db[ConfigKey(hash)]))
    /\ db' = [db EXCEPT ![ConfigKey(hash)] = SubSeq(@, 1, n)]
    /\ rec' = [rec EXCEPT ![hash] = [src |-> "extern", expect |-> "Decode", cfg |-> ZeroConfig]]
    /\ result' = Outcome("extern", hash, NilCfg, NoFault, "", NilCfg, "", "", <<>>)

\* The lengths the value under hash's key may be truncated to.
TruncLensOf(hash) ==
    IF ConfigKey(hash) \in DOMAIN db THEN TruncLens(Len(db[ConfigKey(hash)])) ELSE {}

Next ==
    \/ \E h \in Hashes, f \in {NoFault} \cup GetFaults : Read(h, f)
    \/ \E h \in Hashes, c \in ConfigPtrs, f \in {NoFault} \cup PutFaults : Write(h, c, f)
    \/ \E h \in Hashes, raw \in RawValues : PutRaw(h, raw)
    \/ \E h \in Hashes : \E n \in TruncLensOf(h) : Truncate(h, n)

Spec == Init /\ [][Next]_vars

\* ----------------------------------------------------------------- claims
\* What a read of hash returns from table d when the store reports no error.
ReadOf(d, hash) == ReadChainConfig(d, hash, NoFault)

WroteOk == result.op = "write" /\ result.err = ""
ReadNoFault == result.op = "read" /\ result.fault.err = ""

\* C1: a read of h that follows a successful write of c under h, with no
\* change to h's record in between, succeeds and returns a config equal to c.
RoundTrip ==
    (ReadNoFault /\ rec[result.hash].src = "write")
        => /\ result.err = ""
           /\ result.config = Ptr(rec[result.hash].cfg)

RoundTripWitness ==
    /\ ReadNoFault
    /\ rec[result.hash].src = "write"
    /\ result.config = Ptr([ChainID |-> 10, HomesteadBlock |-> 0])

\* C2: when a successful write of c2 under h replaces a record written as c1,
\* a read of h returns c2 and, when c1 differs from c2, not c1; the table
\* never holds more records than there are hashes written to, each under the
\* key of its hash.
LastWriteWins ==
    [][ /\ (result'.op = "write" /\ result'.err = "" /\ result'.prior = "other")
            => LET h == result'.hash
                   c1 == rec[h].cfg
                   c2 == result'.cfg[1]
                   r == ReadOf(db', h)
               IN /\ r.err = ""
                  /\ r.config = Ptr(c2)
                  /\ (c1 # c2 => r.config # Ptr(c1))
        /\ DOMAIN db' \subseteq {ConfigKey(h) : h \in {g \in Hashes : rec'[g].src # "none"}}
        /\ Cardinality(DOMAIN db') <= Cardinality({g \in Hashes : rec'[g].src # "none"})
      ]_vars

LastWriteWinsWitness ==
    /\ WroteOk
    /\ result.prior = "other"
    /\ ReadOf(db, result.hash).config = result.cfg

\* C3: a write under h1, successful or failed, leaves what a read under any
\* other hash h2 returns as it was, for every response of the store; distinct
\* hashes have distinct keys.
KeyIsolation ==
    [][ /\ result'.op = "write"
            => \A h2 \in Hashes \ {result'.hash} :
                   \A f \in {NoFault} \cup GetFaults :
                       ReadChainConfig(db', h2, f) = ReadChainConfig(db, h2, f)
        /\ \A h1, h2 \in Hashes : h1 # h2 => ConfigKey(h1) # ConfigKey(h2)
      ]_vars

KeyIsolationWitness ==
    /\ WroteOk
    /\ \E h2 \in Hashes \ {result.hash} :
           /\ rec[h2].src = "write"
           /\ ReadOf(db, h2).config = Ptr(rec[h2].cfg)
           /\ rec[h2].cfg # result.cfg[1]

\* C4: a read of a hash whose lookup gives zero bytes without error (the key
\* is absent or holds an empty value) fails with NotFound and returns no
\* config; the error is neither the decode failure nor the read failure.
NeverWrittenIsNotFound ==
    (ReadNoFault /\ rec[result.hash].expect = "NotFound")
        => /\ result.err = NotFound
           /\ result.config = NilCfg
           /\ result.err \notin {DecodeFailure, ReadFailure}

NeverWrittenWitness ==
    /\ ReadNoFault
    /\ rec[result.hash].src = "none"
    /\ ConfigKey(result.hash) \notin DOMAIN db
    /\ result.err = NotFound

\* C5: a write of a nil config returns InvalidArgument, issues no store call
\* and leaves the table as it was, so a read of any hash returns what it
\* returned before.
NilWriteRejected ==
    [][ (result'.op = "write" /\ result'.cfg = NilCfg)
            => /\ result'.err = InvalidArgument
               /\ result'.calls = <<>>
               /\ db' = db
               /\ \A h \in Hashes : ReadOf(db', h) = ReadOf(db, h)
      ]_vars

NilWriteWitness ==
    /\ result.op = "write"
    /\ result.cfg = NilCfg
    /\ result.err = InvalidArgument
    /\ ReadOf(db, result.hash).err = ""

\* C6: when the non-empty bytes under h's key do not decode (a truncated
\* record, a document of the wrong type), a read of h fails with
\* DecodeFailure and returns no config.
CorruptIsDecodeFailure ==
    (ReadNoFault /\ rec[result.hash].expect = "Decode")
        => /\ result.err = DecodeFailure
           /\ result.config = NilCfg

CorruptWitness ==
    /\ ReadNoFault
    /\ rec[result.hash].expect = "Decode"
    /\ result.err = DecodeFailure
    /\ result.cause = "SyntaxError"
    /\ Len(db[ConfigKey(result.hash)]) > 1

\* C7: a successful write of c under h over a record written as the same c
\* leaves the table as it was, and a read of h returns c.
Idempotence ==
    [][ (result'.op = "write" /\ result'.err = "" /\ result'.prior = "same")
            => /\ db' = db
               /\ ReadOf(db', result'.hash).err = ""
               /\ ReadOf(db', result'.hash).config = result'.cfg
      ]_vars

IdempotenceWitness ==
    /\ WroteOk
    /\ result.prior = "same"
    /\ ReadOf(db, result.hash).config = result.cfg

\* C8: when the lookup reports an error, the read fails with ReadFailure
\* carrying the store's error and returns no config, whatever bytes came with
\* the error.
StoreErrorIsReadFailure ==
    (result.op = "read" /\ result.fault.err # "")
        => /\ result.err = ReadFailure
           /\ result.cause = result.fault.err
           /\ result.config = NilCfg

StoreErrorWitness ==
    /\ result.op = "read"
    /\ result.fault.err # ""
    /\ result.fault.data = <<>>
    /\ result.err = ReadFailure

\* C9: a write issues at most one Put and a read exactly one lookup, each on
\* the key of the hash given; when the Put reports an error the write returns
\* that error after the one Put and the table is as it was.
NoRetries ==
    [][ /\ result'.op = "write"
            => /\ Len(result'.calls) <= 1
               /\ \A i \in 1..Len(result'.calls) :
                      result'.calls[i] = PutCall(ConfigKey(result'.hash))
        /\ result'.op = "read"
            => result'.calls = <<GetCall(ConfigKey(result'.hash))>>
        /\ (result'.op = "write" /\ result'.cfg # NilCfg /\ result'.fault.err # "")
            => /\ result'.err = result'.fault.err
               /\ result'.calls = <<PutCall(ConfigKey(result'.hash))>>
               /\ db' = db
      ]_vars

NoRetriesWitness ==
    /\ result.op = "write"
    /\ result.fault.err # ""
    /\ result.err = result.fault.err
    /\ ReadOf(db, result.hash).err = ""

\* C10: a read leaves the table as it was, and what it returns is decided by
\* the bytes now under the key of its hash alone: it is what the last change
\* of that record calls for, and the same as a read of a table holding that
\* record only.
ReadOnlyAndFresh ==
    [][ result'.op = "read"
            => /\ db' = db
               /\ LET h == result'.hash
                      key == ConfigKey(h)
                      only == [k \in DOMAIN db' \cap {key} |-> db'[k]]
                      r == ReadChainConfig(only, h, result'.fault)
                  IN /\ result'.config = r.config
                     /\ result'.err = r.err
                     /\ result'.cause = r.cause
               /\ result'.fault.err = ""
                    => /\ rec'[result'.hash].expect = "NotFound" => result'.err = NotFound
                       /\ rec'[result'.hash].expect = "Decode" => result'.err = DecodeFailure
                       /\ rec'[result'.hash].expect = "ok"
                            => /\ result'.err = ""
                               /\ result'.config = Ptr(rec'[result'.hash].cfg)
      ]_vars

ReadOnlyAndFreshWitness ==
    /\ ReadNoFault
    /\ rec[result.hash].src = "extern"
    /\ result.config = Ptr([ChainID |-> 17, HomesteadBlock |-> 0])
    /\ Cardinality(DOMAIN db) > 1

====
